---------------------------- MODULE Spec2Model ----------------------------
(***************************************************************************)
(* Model of the notification / ticket-intake service:                      *)
(*   - the webhook orchestrator (routes/notification.routes.js),           *)
(*   - the session-scoped intent extraction (ai.service, analyzeMessage),  *)
(*   - the ticket / user store (db.service),                               *)
(*   - the messaging gateway calls (whatsapp.service),                     *)
(*   - the matchmaking client (services/matchmaking.service.js),           *)
(*   - the ticket HTTP API (routes/ticket.routes.js).                      *)
(* JavaScript strings are sequences of one-character strings; JavaScript   *)
(* values are records tagged with their typeof.                            *)
(***************************************************************************)
EXTENDS Integers, Sequences, FiniteSets, TLC

VARIABLES
    cfg,        \* process.env: allow-listed number, extractor key, geocoding base, radius override
    users,      \* table users, by phone_number
    tickets,    \* table tickets, in insertion order (id = position)
    sessions,   \* ai.service: Map sender -> reference of its history array (0: no entry)
    heap,       \* the history arrays, by reference
    hs,         \* the POST /webhook handlers in flight: position and locals of each
    delivered,  \* POST /webhook deliveries received so far
    answers,    \* history variable: per sender, the extractor's answers so far ("throw", "incomplete", "complete")
    requests,   \* HTTP API requests served so far
    resp,       \* the last HTTP API response
    req,        \* the HTTP API request it answers
    mm          \* one call of findMatchingProviders: its arguments, the collaborators' answers, its outcome

vars == <<cfg, users, tickets, sessions, heap, hs, delivered, answers, requests, resp, req, mm>>

\* bounds of the model
MaxHandlers == 2
MaxDeliveries == 2
MaxSeqDeliveries == 4
MaxRequests == 1
MaxItems == 4
MaxApiDeliveries == 1
MaxRaceDeliveries == 3
MaxApiRequests == 2

-----------------------------------------------------------------------------
(* JavaScript values *)

Undefined == [t |-> "undefined", s |-> <<>>]
Null == [t |-> "null", s |-> <<>>]
Str(chars) == [t |-> "string", s |-> chars]
Num(digits) == [t |-> "number", s |-> digits]

\* JavaScript truthiness of a value (!v is its negation)
Truthy(v) ==
    CASE v.t = "string" -> v.s # <<>>
      [] v.t = "number" -> v.s # <<"0">>
      [] v.t = "object" -> TRUE
      [] OTHER -> FALSE

IsString(v) == v.t = "string"

-----------------------------------------------------------------------------
(* String.prototype helpers, on sequences of characters *)

UpperToLower ==
    [c \in {"A", "L", "T", "P", "U"} |->
        CASE c = "A" -> "a" [] c = "L" -> "l" [] c = "T" -> "t" [] c = "P" -> "p" [] c = "U" -> "u"]

\* String.prototype.toLowerCase
ToLowerCase(str) ==
    [i \in 1..Len(str) |-> IF str[i] \in DOMAIN UpperToLower THEN UpperToLower[str[i]] ELSE str[i]]

RECURSIVE TrimStart(_)
TrimStart(str) ==
    IF str # <<>> /\ Head(str) = " " THEN TrimStart(Tail(str)) ELSE str

RECURSIVE TrimEnd(_)
TrimEnd(str) ==
    IF str # <<>> /\ str[Len(str)] = " " THEN TrimEnd(SubSeq(str, 1, Len(str) - 1)) ELSE str

\* String.prototype.trim
Trim(str) == TrimEnd(TrimStart(str))

\* String.prototype.split(','): the pieces between the commas, empty pieces included
RECURSIVE SplitComma(_, _)
SplitComma(str, piece) ==
    IF str = <<>> THEN <<piece>>
    ELSE IF Head(str) = "," THEN <<piece>> \o SplitComma(Tail(str), <<>>)
    ELSE SplitComma(Tail(str), Append(piece, Head(str)))

\* Array.prototype.filter(Boolean) on an array of strings
RECURSIVE FilterNonEmpty(_)
FilterNonEmpty(parts) ==
    IF parts = <<>> THEN <<>>
    ELSE IF Head(parts) # <<>> THEN <<Head(parts)>> \o FilterNonEmpty(Tail(parts))
    ELSE FilterNonEmpty(Tail(parts))

\* String.prototype.startsWith
StartsWith(str, prefix) ==
    Len(str) >= Len(prefix) /\ SubSeq(str, 1, Len(prefix)) = prefix

\* Array.prototype.slice(from, to) with 0-based, end-exclusive indices
Slice(arr, from, to) ==
    SubSeq(arr, from + 1, IF to < Len(arr) THEN to ELSE Len(arr))


-----------------------------------------------------------------------------
(* Matchmaking client: services/matchmaking.service.js (current version)   *)

S_pintor == <<"p", "i", "n", "t", "o", "r">>
S_pintura == <<"p", "i", "n", "t", "u", "r", "a">>
S_techo == <<"t", "e", "c", "h", "o">>
S_alta == <<"a", "l", "t", "a">>
S_ALTA == <<"A", "L", "T", "A">>
S_urgente == <<"u", "r", "g", "e", "n", "t", "e">>
S_baja == <<"b", "a", "j", "a">>

\* the synonym table, restricted to the entries of one target slug
CATEGORY_SLUG_MAP == [k \in {S_pintor, S_pintura} |-> S_pintura]

DEFAULT_RADIUS_KM == 40

normalizeCategoryForApi(category) ==
    IF ~Truthy(category) \/ ~IsString(category)
    THEN [categoryName |-> IF Truthy(category) THEN category ELSE Str(<<>>),
          categorySlug |-> Undefined]
    ELSE LET key == ToLowerCase(Trim(category.s))
         IN  IF key \in DOMAIN CATEGORY_SLUG_MAP
             THEN [categoryName |-> Undefined, categorySlug |-> Str(CATEGORY_SLUG_MAP[key])]
             ELSE [categoryName |-> Str(Trim(category.s)), categorySlug |-> Undefined]

parseZone(zone) ==
    IF ~Truthy(zone) \/ ~IsString(zone)
    THEN [city |-> <<>>, province |-> <<>>]
    ELSE LET t == Trim(zone.s)
             raw == SplitComma(t, <<>>)
             parts == FilterNonEmpty([i \in 1..Len(raw) |-> Trim(raw[i])])
         IN  [city |-> IF Len(parts) >= 1 THEN parts[1] ELSE t,
              province |-> IF Len(parts) >= 2 THEN parts[2] ELSE <<>>]

normalizeZoneForSearch(zone) ==
    LET city == parseZone(zone).city
    IN  IF city # <<>> THEN Str(city)
        ELSE IF Truthy(zone) THEN zone ELSE Str(<<>>)

NoCoords == [ok |-> FALSE, lat |-> 0, lng |-> 0]

\* variant: the answer's lat and lng are taken without the typeof tests
geocodeZone_NoTypeCheck(zone, env) ==
    IF ~env.geoBase THEN [called |-> FALSE, coords |-> NoCoords]
    ELSE IF parseZone(zone).city = <<>> THEN [called |-> FALSE, coords |-> NoCoords]
    ELSE IF env.geo.kind \in {"coords", "nonnumeric"}
         THEN [called |-> TRUE, coords |-> [ok |-> TRUE, lat |-> env.geo.lat, lng |-> env.geo.lng]]
         ELSE [called |-> TRUE, coords |-> NoCoords]

\* geocodeZone: env.geoBase says whether a geocoding base URL is configured,
\* env.geo is the geocoding collaborator's answer.  Returns whether the
\* collaborator was called and the coordinates (NoCoords for null).
geocodeZone(zone, env) ==
    IF ~env.geoBase THEN [called |-> FALSE, coords |-> NoCoords]
    ELSE IF parseZone(zone).city = <<>> THEN [called |-> FALSE, coords |-> NoCoords]
    ELSE IF env.geo.kind = "coords"
         THEN [called |-> TRUE, coords |-> [ok |-> TRUE, lat |-> env.geo.lat, lng |-> env.geo.lng]]
         ELSE [called |-> TRUE, coords |-> NoCoords]

\* comparator of the urgency sort
CmpEmergency(a, b) ==
    IF a.emergency_available /\ ~b.emergency_available THEN -1
    ELSE IF ~a.emergency_available /\ b.emergency_available THEN 1
    ELSE 0

\* comparator of the is_pro sort
CmpPro(a, b) ==
    IF a.is_pro /\ ~b.is_pro THEN -1
    ELSE IF ~a.is_pro /\ b.is_pro THEN 1
    ELSE 0

Compare(key, a, b) == IF key = "emergency" THEN CmpEmergency(a, b) ELSE CmpPro(a, b)

\* insert x into the sorted array after every element that does not compare greater
RECURSIVE InsertStable(_, _, _)
InsertStable(key, sorted, x) ==
    IF sorted = <<>> THEN <<x>>
    ELSE LET last == sorted[Len(sorted)]
         IN  IF Compare(key, last, x) > 0
             THEN Append(InsertStable(key, SubSeq(sorted, 1, Len(sorted) - 1), x), last)
             ELSE Append(sorted, x)

\* Array.prototype.sort(comparator): a stable sort
RECURSIVE SortBy(_, _)
SortBy(key, arr) ==
    IF arr = <<>> THEN <<>>
    ELSE InsertStable(key, SortBy(key, SubSeq(arr, 1, Len(arr) - 1)), arr[Len(arr)])

\* urgency && (urgency.toLowerCase() === 'alta' || urgency.toLowerCase() === 'urgente')
IsUrgent(urgency) ==
    Truthy(urgency) /\ ToLowerCase(urgency.s) \in {S_alta, S_urgente}

\* the two sort stages, in the order the code runs them
Rerank(providers, urgency) ==
    LET byUrgency == IF IsUrgent(urgency) THEN SortBy("emergency", providers) ELSE providers
    IN  SortBy("pro", byUrgency)

\* variant: the re-ranked list is returned whole
TopCandidates_NoSlice(providers) == providers

\* providers.slice(0, 3)
TopCandidates(providers) == Slice(providers, 0, 3)

\* the projection to the MatchCandidate shape
Project(p) ==
    [id |-> p.id, name |-> p.first_name \o <<" ">> \o p.last_name,
     is_pro |-> p.is_pro, emergency_available |-> p.emergency_available]

ProjectAll(providers) == [i \in 1..Len(providers) |-> Project(providers[i])]

NoQuery ==
    [city |-> Undefined, urgency |-> Undefined, categorySlug |-> Undefined,
     categoryName |-> Undefined, coords |-> NoCoords, radiusKm |-> 0]

\* variant: the catch block rethrows
CatchResult_Rethrow == [raised |-> TRUE, result |-> <<>>]

\* what the catch block of findMatchingProviders returns
CatchResult == [raised |-> FALSE, result |-> <<>>]

\* the destructuring of ticketData: a property read of a primitive is undefined
Field(ticketData, name) ==
    IF ticketData.t = "object" THEN ticketData[name] ELSE Undefined

\* findMatchingProviders(ticketData) against the collaborators' answers env:
\*   raised   - an exception reached the caller
\*   result   - the returned array
\*   geoCalls, dirCalls - requests made to the geocoder and to the directory
\*   query    - the params of the directory request
findMatchingProviders(ticketData, env) ==
    LET category == Field(ticketData, "category")
        zone == Field(ticketData, "zone")
        urgency == Field(ticketData, "urgency")
        cat == normalizeCategoryForApi(category)
        geo == geocodeZone(zone, env)
        query == [city |-> normalizeZoneForSearch(zone),
                  urgency |-> urgency,
                  categorySlug |-> cat.categorySlug,
                  categoryName |-> IF Truthy(cat.categorySlug) THEN Undefined
                                   ELSE IF Truthy(cat.categoryName) THEN cat.categoryName
                                   ELSE Undefined,
                  coords |-> geo.coords,
                  radiusKm |-> IF geo.coords.ok
                               THEN (IF env.radius # 0 THEN env.radius ELSE DEFAULT_RADIUS_KM)
                               ELSE 0]
        none == [geoCalls |-> 0, dirCalls |-> 0, query |-> NoQuery]
        asked == [geoCalls |-> IF geo.called THEN 1 ELSE 0, dirCalls |-> 1, query |-> query]
    IN  IF ticketData.t \in {"null", "undefined"}
        THEN \* TypeError of the destructuring, before the try block
             [raised |-> TRUE, result |-> <<>>] @@ none
        ELSE IF Truthy(zone) /\ ~IsString(zone)
        THEN \* (zone || '').trim is not a function: caught
             CatchResult @@ none
        ELSE IF env.dir.kind \in {"throw", "non2xx"}
        THEN CatchResult @@ asked
        ELSE IF env.dir.kind \in {"nodata", "noitems"}
        THEN [raised |-> FALSE, result |-> <<>>] @@ asked
        ELSE IF env.dir.items = <<>>
        THEN [raised |-> FALSE, result |-> <<>>] @@ asked
        ELSE IF Truthy(urgency) /\ ~IsString(urgency)
        THEN \* urgency.toLowerCase is not a function: caught
             CatchResult @@ asked
        ELSE [raised |-> FALSE,
              result |-> ProjectAll(TopCandidates(Rerank(env.dir.items, urgency)))] @@ asked


-----------------------------------------------------------------------------
(* Phone numbers and the messaging gateway: whatsapp.service               *)

PhoneA == <<"5", "4", "9", "9", "2">>
PhoneB == <<"5", "4", "9", "2">>
Senders == {PhoneA, PhoneB}
Unset == <<>>

\* '549...' -> '54...' (Meta delivers 549, the send API wants 54)
Normalize549(phone) ==
    IF StartsWith(phone, <<"5", "4", "9">>) THEN <<"5", "4">> \o SubSeq(phone, 4, Len(phone)) ELSE phone

\* the recipient sendWhatsAppText / sendTermsInteractiveMessage put in "to"
\* (the inbound sender id holds digits only, so replace(/\D/g,'') keeps it)
GatewayTo(phoneNumber) == Normalize549(phoneNumber)

\* metaRecipient of the webhook route
MetaRecipient(from) == Normalize549(from)

\* a request handed to the messaging gateway
Message(kind, to, count, ticketId) ==
    [kind |-> kind, to |-> to, count |-> count, ticketId |-> ticketId]

-----------------------------------------------------------------------------
(* Ticket / user store: db.service                                          *)

CURRENT_TERMS_VERSION == "v1.1"

NoRow == [exists |-> FALSE, terms_accepted |-> FALSE, terms_version |-> "NULL"]
NewUserRow == [exists |-> TRUE, terms_accepted |-> FALSE, terms_version |-> "NULL"]
StaleUserRow == [exists |-> TRUE, terms_accepted |-> TRUE, terms_version |-> "v1.0"]
AcceptedRow == [exists |-> TRUE, terms_accepted |-> TRUE, terms_version |-> CURRENT_TERMS_VERSION]

\* SELECT * FROM users WHERE phone_number = $1 -> rows[0] || null
getUser(phone) == users[phone]

\* variant: the INSERT replaces an existing row (ON CONFLICT DO UPDATE)
createUserTable_Overwrite(phone) == [users EXCEPT ![phone] = NewUserRow]

\* INSERT ... ON CONFLICT DO NOTHING RETURNING *: the table afterwards
createUserTable(phone) ==
    IF users[phone].exists THEN users ELSE [users EXCEPT ![phone] = NewUserRow]

\* ... and rows[0]: the new row, or undefined when the insert did nothing
createUserReturn(phone) ==
    IF users[phone].exists THEN NoRow ELSE NewUserRow

\* UPDATE users SET ... WHERE phone_number = $1: the table afterwards
acceptTermsTable(phone) ==
    IF users[phone].exists THEN [users EXCEPT ![phone] = AcceptedRow] ELSE users

\* variant: the INSERT runs twice
saveTicketTable_Twice(phone, ticketData, source) ==
    LET row == [id |-> Len(tickets) + 1, phone_number |-> phone,
                category |-> Field(ticketData, "category"),
                description |-> Field(ticketData, "description"),
                zone |-> Field(ticketData, "zone"),
                urgency |-> Field(ticketData, "urgency"),
                status |-> "ABIERTO", source |-> source]
    IN  Append(Append(tickets, row), [row EXCEPT !.id = Len(tickets) + 2])

\* INSERT INTO tickets ... RETURNING id: the table afterwards
saveTicketTable(phone, ticketData, source) ==
    Append(tickets,
           [id |-> Len(tickets) + 1,
            phone_number |-> phone,
            category |-> Field(ticketData, "category"),
            description |-> Field(ticketData, "description"),
            zone |-> Field(ticketData, "zone"),
            urgency |-> Field(ticketData, "urgency"),
            status |-> "ABIERTO",
            source |-> source])

-----------------------------------------------------------------------------
(* Terms gatekeeper of the webhook route                                    *)

\* variant: the gate does not look at the accepted version
Cleared_AnyVersion(user) == user.terms_accepted

\* the negation of: !user.terms_accepted || user.terms_version !== CURRENT_TERMS_VERSION
Cleared(user) ==
    user.terms_accepted /\ user.terms_version = CURRENT_TERMS_VERSION

-----------------------------------------------------------------------------
(* Values exchanged with the collaborators                                  *)

TicketData(category, zone, urgency) ==
    [t |-> "object", s |-> <<>>, category |-> category, zone |-> zone, urgency |-> urgency,
     description |-> Str(<<"x">>)]

\* extractedData: null
NullData ==
    [t |-> "null", s |-> <<>>, category |-> Undefined, zone |-> Undefined, urgency |-> Undefined,
     description |-> Undefined]

S_zone == <<"S", "R", ",", " ", "M">>

\* a complete extraction as the extractor's contract describes it
TD1 == TicketData(Str(S_pintor), Str(S_zone), Str(S_alta))

\* a provider as the directory returns it
Item(id, pro, emergency) ==
    [id |-> id, first_name |-> <<"N">>, last_name |-> <<"L">>,
     is_pro |-> pro, emergency_available |-> emergency, rating |-> id]

\* what the directory can answer: transport failure, non-2xx, a body without
\* data, a body whose items is no array, or a body with an items array
DirFail(kind) == [kind |-> kind, items |-> <<>>]
DirItems(items) == [kind |-> "items", items |-> items]

\* what the geocoder can answer
GeoAnswers ==
    {[kind |-> "throw", lat |-> 0, lng |-> 0],
     [kind |-> "nonnumeric", lat |-> 0, lng |-> 0],
     [kind |-> "coords", lat |-> 1, lng |-> 2]}

MatchEnv(geo, dir) ==
    [geoBase |-> cfg.geoBase, radius |-> cfg.radius, geo |-> geo, dir |-> dir]

\* the answers of the extractor (client.models.generateContent + JSON.parse):
\* "throw" is a rejected call, a non-JSON text or the JSON null; "json" is a
\* parsed object with the fields the route reads
ExtractorThrow ==
    [kind |-> "throw", isComplete |-> FALSE, extractedData |-> NullData,
     hasReply |-> FALSE, error |-> FALSE]

ExtractorJson ==
    {[kind |-> "json", isComplete |-> FALSE, extractedData |-> NullData, hasReply |-> TRUE, error |-> FALSE],
     [kind |-> "json", isComplete |-> FALSE, extractedData |-> NullData, hasReply |-> FALSE, error |-> TRUE],
     [kind |-> "json", isComplete |-> TRUE, extractedData |-> TD1, hasReply |-> TRUE, error |-> FALSE],
     [kind |-> "json", isComplete |-> TRUE, extractedData |-> NullData, hasReply |-> TRUE, error |-> FALSE]}

ExtractorAnswers == {ExtractorThrow} \cup ExtractorJson

\* the value analyzeMessage returns to the route
NoResult ==
    [isComplete |-> FALSE, extractedData |-> NullData, hasReply |-> FALSE, error |-> FALSE]
ErrorResult ==
    [isComplete |-> FALSE, extractedData |-> NullData, hasReply |-> FALSE, error |-> TRUE]
ParsedResult(answer) ==
    [isComplete |-> answer.isComplete, extractedData |-> answer.extractedData,
     hasReply |-> answer.hasReply, error |-> answer.error]

\* an inbound delivery: its first message (type "none": no messages at all)
\* and, in second, the button id of a second message in the same delivery
Inbound(from, type, hasText, button) ==
    [from |-> from, type |-> type, hasText |-> hasText, button |-> button, second |-> "none"]

\* a delivery with a button reply as its second message
InboundThen(first, button) == [first EXCEPT !.second = button]

InboundMessages ==
    {Inbound(PhoneA, "text", TRUE, "none"),
     Inbound(PhoneA, "image", FALSE, "none"),
     Inbound(PhoneA, "interactive", FALSE, "accept_terms"),
     Inbound(PhoneA, "interactive", FALSE, "reject_terms"),
     Inbound(PhoneA, "interactive", FALSE, "other"),
     Inbound(PhoneA, "none", FALSE, "none"),
     InboundThen(Inbound(PhoneA, "image", FALSE, "none"), "accept_terms"),
     Inbound(PhoneB, "text", TRUE, "none")}

-----------------------------------------------------------------------------
(* POST /webhook: one handler per delivery, one action per await            *)

H == 1..MaxHandlers

ZeroCalls == [analyze |-> 0, extract |-> 0, save |-> 0, match |-> 0, geo |-> 0, dir |-> 0]

\* the locals of one handler; threw: a store call of the handler rejected
Idle ==
    [pc |-> "idle", d |-> 0, msg |-> Inbound(Unset, "none", FALSE, "none"),
     acked |-> FALSE, user |-> NoRow, gate |-> "none", history |-> 0,
     result |-> NoResult, answered |-> "none", ticketId |-> 0, saved |-> "none",
     matches |-> <<>>, dirKind |-> "none", sent |-> <<>>, calls |-> ZeroCalls,
     threw |-> FALSE]

Free(h) == hs[h].pc \in {"idle", "done"}

\* the history array of a sender, <<>> when the Map has no entry
SessionTurns(from) == IF sessions[from] = 0 THEN <<>> ELSE heap[sessions[from]]

Turn(role, d) == [role |-> role, d |-> d]

\* the route after the button branch: where the handler continues
AfterButton(msg) ==
    IF msg.type = "interactive" /\ msg.button = "accept_terms" THEN "acceptTerms"
    ELSE IF msg.type = "interactive" /\ msg.button = "reject_terms" THEN "sendReject"
    ELSE "getUser"

\* variant: with no allow-listed number configured every sender passes
NotAllowed_OpenWhenUnset(from) == cfg.allowed # Unset /\ from # cfg.allowed

\* !WEBHOOK_ALLOWED_NUMBER || from !== WEBHOOK_ALLOWED_NUMBER
NotAllowed(from) == cfg.allowed = Unset \/ from # cfg.allowed

\* variant: the acknowledgement is sent only for a payload with messages
AckOf_WhenMessages(msg) == msg.type # "none"

\* res.sendStatus(200), the first statement of the handler: the payload is not looked at
AckOf(msg) == TRUE

\* router.post('/webhook') up to its first await; the delivery takes the
\* first free handler slot
Receive(h, msg, limit) ==
    /\ Free(h)
    /\ \A g \in H : g < h => ~Free(g)
    /\ delivered < limit
    /\ delivered' = delivered + 1
    /\ hs' = [hs EXCEPT ![h] =
                [Idle EXCEPT !.d = delivered + 1, !.msg = msg, !.acked = AckOf(msg),
                             !.pc = IF msg.type = "none" THEN "done"
                                    ELSE IF NotAllowed(msg.from) THEN "done"
                                    ELSE AfterButton(msg)]]
    /\ UNCHANGED <<cfg, users, tickets, sessions, heap, answers, requests, resp, req, mm>>

\* await acceptTerms(from): the UPDATE runs, or the store call throws
AcceptTerms(h) ==
    /\ hs[h].pc = "acceptTerms"
    /\ \E ok \in BOOLEAN :
        /\ users' = IF ok THEN acceptTermsTable(hs[h].msg.from) ELSE users
        /\ hs' = [hs EXCEPT ![h].pc = IF ok THEN "sendAccept" ELSE "done",
                            ![h].threw = ~ok]
    /\ UNCHANGED <<cfg, tickets, sessions, heap, delivered, answers, requests, resp, req, mm>>

\* await sendWhatsAppText(from, "¡Gracias! Ya estás registrado...")
SendAccept(h) ==
    /\ hs[h].pc = "sendAccept"
    /\ hs' = [hs EXCEPT ![h].pc = "done",
                        ![h].sent = Append(@, Message("accepted", GatewayTo(hs[h].msg.from), 0, 0))]
    /\ UNCHANGED <<cfg, users, tickets, sessions, heap, delivered, answers, requests, resp, req, mm>>

\* variant: the reject_terms branch lacks its return
AfterReject_FallThrough == "getUser"

\* where the reject_terms branch goes after its send
AfterReject == "done"

\* await sendWhatsAppText(from, "Entendemos. Para usar miservicio...")
SendReject(h) ==
    /\ hs[h].pc = "sendReject"
    /\ hs' = [hs EXCEPT ![h].pc = AfterReject,
                        ![h].sent = Append(@, Message("rejected", GatewayTo(hs[h].msg.from), 0, 0))]
    /\ UNCHANGED <<cfg, users, tickets, sessions, heap, delivered, answers, requests, resp, req, mm>>

\* the route after analyzeMessage returned, when no ticket is persisted:
\* if (result && !result.error && result.replyToClient) send it
ReplyOrDone(result) ==
    IF ~result.error /\ result.hasReply THEN "sendReply" ELSE "done"

\* if (result && result.isComplete && result.extractedData) persist, else reply
AfterAnalyze(result) ==
    IF result.isComplete /\ Truthy(result.extractedData) THEN "saveTicket"
    ELSE ReplyOrDone(result)

\* analyzeMessage(from, text) up to its await: the early returns, then the
\* session lookup / creation and the push of the user turn
AnalyzeMessage(h, user) ==
    LET from == hs[h].msg.from
        ref == IF sessions[from] = 0 THEN Len(heap) + 1 ELSE sessions[from]
        base == IF sessions[from] = 0 THEN Append(heap, <<>>) ELSE heap
    IN  IF ~cfg.geminiKey \/ ~hs[h].msg.hasText
        THEN /\ hs' = [hs EXCEPT ![h].user = user, ![h].gate = "cleared",
                                 ![h].calls.analyze = @ + 1,
                                 ![h].result = ErrorResult,
                                 ![h].pc = AfterAnalyze(ErrorResult)]
             /\ UNCHANGED <<sessions, heap>>
        ELSE /\ sessions' = [sessions EXCEPT ![from] = ref]
             /\ heap' = [base EXCEPT ![ref] = Append(@, Turn("user", hs[h].d))]
             /\ hs' = [hs EXCEPT ![h].user = user, ![h].gate = "cleared",
                                 ![h].calls.analyze = @ + 1,
                                 ![h].calls.extract = @ + 1,
                                 ![h].history = ref,
                                 ![h].pc = "extract"]

\* variant: the terms test is missing
Gatekeeper_Open(h, user) == AnalyzeMessage(h, user)

\* the gatekeeper on the loaded (or created) user, then analyzeMessage
Gatekeeper(h, user) ==
    IF ~Cleared(user)
    THEN /\ hs' = [hs EXCEPT ![h].user = user, ![h].gate = "blocked", ![h].pc = "sendTerms"]
         /\ UNCHANGED <<sessions, heap>>
    ELSE AnalyzeMessage(h, user)

\* let user = await getUser(from): the SELECT answers, or the store call throws
GetUser(h) ==
    /\ hs[h].pc = "getUser"
    /\ \E ok \in BOOLEAN :
        IF ~ok
        THEN /\ hs' = [hs EXCEPT ![h].pc = "done", ![h].threw = TRUE]
             /\ UNCHANGED <<sessions, heap>>
        ELSE IF ~getUser(hs[h].msg.from).exists
        THEN /\ hs' = [hs EXCEPT ![h].pc = "createUser"]
             /\ UNCHANGED <<sessions, heap>>
        ELSE Gatekeeper(h, getUser(hs[h].msg.from))
    /\ UNCHANGED <<cfg, users, tickets, delivered, answers, requests, resp, req, mm>>

\* user = await createUser(from): the INSERT runs, or the store call throws;
\* an insert that did nothing returns undefined and user.terms_accepted throws
CreateUser(h) ==
    /\ hs[h].pc = "createUser"
    /\ \E ok \in BOOLEAN :
        IF ~ok
        THEN /\ hs' = [hs EXCEPT ![h].pc = "done", ![h].threw = TRUE]
             /\ UNCHANGED <<users, sessions, heap>>
        ELSE /\ users' = createUserTable(hs[h].msg.from)
             /\ IF ~createUserReturn(hs[h].msg.from).exists
                THEN /\ hs' = [hs EXCEPT ![h].pc = "done"]
                     /\ UNCHANGED <<sessions, heap>>
                ELSE Gatekeeper(h, createUserReturn(hs[h].msg.from))
    /\ UNCHANGED <<cfg, tickets, delivered, answers, requests, resp, req, mm>>

\* await sendTermsInteractiveMessage(from)
SendTerms(h) ==
    /\ hs[h].pc = "sendTerms"
    /\ hs' = [hs EXCEPT ![h].pc = "done",
                        ![h].sent = Append(@, Message("terms", GatewayTo(hs[h].msg.from), 0, 0))]
    /\ UNCHANGED <<cfg, users, tickets, sessions, heap, delivered, answers, requests, resp, req, mm>>

\* variant: the session is kept on isComplete
SessionsAfter_Keep(from, answer) == sessions

\* the Map after the extractor answered: delete on isComplete
SessionsAfter(from, answer) ==
    IF answer.kind = "json" /\ answer.isComplete
    THEN [sessions EXCEPT ![from] = 0]
    ELSE sessions

\* variant: the model turn is not pushed
HeapAfter_NoPush(ref, d, answer) == heap

\* the history arrays after the extractor answered: the model turn is pushed
\* to the array this call holds, when the answer is not complete
HeapAfter(ref, d, answer) ==
    IF answer.kind = "json" /\ ~answer.isComplete
    THEN [heap EXCEPT ![ref] = Append(@, Turn("model", d))]
    ELSE heap

AnswerKind(answer) ==
    IF answer.kind = "throw" THEN "throw"
    ELSE IF answer.isComplete THEN "complete"
    ELSE "incomplete"

\* analyzeMessage after its await, and the route up to its next await
ExtractReturn(h, answer) ==
    LET from == hs[h].msg.from
        result == IF answer.kind = "throw" THEN ErrorResult ELSE ParsedResult(answer)
    IN  /\ hs[h].pc = "extract"
        /\ sessions' = SessionsAfter(from, answer)
        /\ heap' = HeapAfter(hs[h].history, hs[h].d, answer)
        /\ answers' = [answers EXCEPT ![from] = Append(@, AnswerKind(answer))]
        /\ hs' = [hs EXCEPT ![h].result = result,
                            ![h].answered = AnswerKind(answer),
                            ![h].pc = AfterAnalyze(result)]
        /\ UNCHANGED <<cfg, users, tickets, delivered, requests, resp, req, mm>>

\* variant: a failed INSERT is attempted again
SaveTicket_Retry(h) ==
    /\ hs[h].pc = "saveTicket"
    /\ \E ok \in BOOLEAN :
        IF ok
        THEN /\ tickets' = saveTicketTable(hs[h].msg.from, hs[h].result.extractedData, "whatsapp")
             /\ hs' = [hs EXCEPT ![h].ticketId = Len(tickets) + 1,
                                 ![h].saved = "ok",
                                 ![h].calls.save = @ + 1,
                                 ![h].pc = "matchmaking"]
        ELSE /\ tickets' = tickets
             /\ hs' = [hs EXCEPT ![h].saved = "failed",
                                 ![h].calls.save = @ + 1]
    /\ UNCHANGED <<cfg, users, sessions, heap, delivered, answers, requests, resp, req, mm>>

\* const ticketId = await saveTicket(from, result.extractedData, 'whatsapp'):
\* the INSERT runs, or the store call throws into catch (dbErr)
SaveTicket(h) ==
    /\ hs[h].pc = "saveTicket"
    /\ \E ok \in BOOLEAN :
        IF ok
        THEN /\ tickets' = saveTicketTable(hs[h].msg.from, hs[h].result.extractedData, "whatsapp")
             /\ hs' = [hs EXCEPT ![h].ticketId = Len(tickets) + 1,
                                 ![h].saved = "ok",
                                 ![h].calls.save = @ + 1,
                                 ![h].pc = "matchmaking"]
        ELSE /\ tickets' = tickets
             /\ hs' = [hs EXCEPT ![h].saved = "failed",
                                 ![h].threw = TRUE,
                                 ![h].calls.save = @ + 1,
                                 ![h].pc = ReplyOrDone(hs[h].result)]
    /\ UNCHANGED <<cfg, users, sessions, heap, delivered, answers, requests, resp, req, mm>>

\* the directory answers the webhook model draws from
DirAnswersSmall ==
    {DirFail("throw"), DirFail("non2xx"), DirFail("nodata"), DirFail("noitems"),
     DirItems(<<>>),
     DirItems(<<Item(1, FALSE, TRUE)>>),
     DirItems(<<Item(1, FALSE, FALSE), Item(2, TRUE, FALSE), Item(3, FALSE, TRUE), Item(4, TRUE, TRUE)>>)}

\* variant: a single candidate counts as none
OutcomePc_MoreThanOne(matches) == IF Len(matches) > 1 THEN "sendMatch" ELSE "sendNoMatch"

\* the message the route sends after matchmaking
OutcomePc(matches) == IF Len(matches) > 0 THEN "sendMatch" ELSE "sendNoMatch"

\* const matches = await findMatchingProviders(result.extractedData)
Matchmaking(h) ==
    /\ hs[h].pc = "matchmaking"
    /\ \E geo \in GeoAnswers, dir \in DirAnswersSmall :
        LET out == findMatchingProviders(hs[h].result.extractedData, MatchEnv(geo, dir))
        IN  hs' = [hs EXCEPT ![h].matches = out.result,
                             ![h].dirKind = dir.kind,
                             ![h].calls.match = @ + 1,
                             ![h].calls.geo = @ + out.geoCalls,
                             ![h].calls.dir = @ + out.dirCalls,
                             ![h].pc = IF out.raised THEN ReplyOrDone(hs[h].result)
                                       ELSE OutcomePc(out.result)]
    /\ UNCHANGED <<cfg, users, tickets, sessions, heap, delivered, answers, requests, resp, req, mm>>

\* variant: the branch with candidates lacks its return
SendMatch_NoReturn(h) ==
    /\ hs[h].pc = "sendMatch"
    /\ hs' = [hs EXCEPT ![h].pc = ReplyOrDone(hs[h].result),
                        ![h].sent = Append(@, Message("match", GatewayTo(MetaRecipient(hs[h].msg.from)),
                                                      Len(hs[h].matches), hs[h].ticketId))]
    /\ UNCHANGED <<cfg, users, tickets, sessions, heap, delivered, answers, requests, resp, req, mm>>

\* await sendMatchResultsMessage(metaRecipient, matches.length, ticketId); return
SendMatch(h) ==
    /\ hs[h].pc = "sendMatch"
    /\ hs' = [hs EXCEPT ![h].pc = "done",
                        ![h].sent = Append(@, Message("match", GatewayTo(MetaRecipient(hs[h].msg.from)),
                                                      Len(hs[h].matches), hs[h].ticketId))]
    /\ UNCHANGED <<cfg, users, tickets, sessions, heap, delivered, answers, requests, resp, req, mm>>

\* variant: the branch without candidates returns without its send
SendNoMatch_Silent(h) ==
    /\ hs[h].pc = "sendNoMatch"
    /\ hs' = [hs EXCEPT ![h].pc = "done"]
    /\ UNCHANGED <<cfg, users, tickets, sessions, heap, delivered, answers, requests, resp, req, mm>>

\* await sendWhatsAppText(metaRecipient, noMatchesMsg); return
SendNoMatch(h) ==
    /\ hs[h].pc = "sendNoMatch"
    /\ hs' = [hs EXCEPT ![h].pc = "done",
                        ![h].sent = Append(@, Message("nomatch", GatewayTo(MetaRecipient(hs[h].msg.from)), 0, 0))]
    /\ UNCHANGED <<cfg, users, tickets, sessions, heap, delivered, answers, requests, resp, req, mm>>

\* await sendWhatsAppText(metaRecipient, result.replyToClient)
SendReply(h) ==
    /\ hs[h].pc = "sendReply"
    /\ hs' = [hs EXCEPT ![h].pc = "done",
                        ![h].sent = Append(@, Message("reply", GatewayTo(MetaRecipient(hs[h].msg.from)), 0, 0))]
    /\ UNCHANGED <<cfg, users, tickets, sessions, heap, delivered, answers, requests, resp, req, mm>>

-----------------------------------------------------------------------------
(* Ticket HTTP API: routes/ticket.routes.js                                 *)

Body(phone_number, category, description) ==
    [phone_number |-> phone_number, category |-> category, description |-> description,
     zone |-> Undefined, urgency |-> Str(S_baja)]

PostBodies ==
    {Body(Str(PhoneB), Str(S_techo), Str(<<"x">>)),
     Body(Str(PhoneB), Str(S_techo), Undefined),
     Body(Str(PhoneB), Str(<<>>), Str(<<"x">>)),
     Body(Undefined, Str(S_techo), Str(<<"x">>))}

\* a response: json says whether the body is a JSON object, keys are the
\* fields of that object, text is a body sent with res.send
NoResp ==
    [route |-> "none", status |-> 0, json |-> FALSE, keys |-> {}, success |-> FALSE,
     ticketId |-> 0, text |-> Undefined]

\* res.status(status).json({...})
Response(route, status, keys, success, ticketId) ==
    [route |-> route, status |-> status, json |-> TRUE, keys |-> keys, success |-> success,
     ticketId |-> ticketId, text |-> Undefined]

\* a request as a route receives it: req.params, req.query or req.body
NoReq == [route |-> "none", arg |-> <<>>]
Request(route, arg) == [route |-> route, arg |-> arg]

\* variant: description is not required
MissingField_NoDescription(body) ==
    ~Truthy(body.phone_number) \/ ~Truthy(body.category)

\* !phone_number || !category || !description
MissingField(body) ==
    ~Truthy(body.phone_number) \/ ~Truthy(body.category) \/ ~Truthy(body.description)

\* router.post('/tickets'): validation, saveTicket(phone_number, ticketData, 'web'),
\* and the response (400, 201, or 500 when the store call throws)
PostTickets(body, limit) ==
    /\ requests < limit
    /\ requests' = requests + 1
    /\ req' = Request("POST /tickets", body)
    /\ IF MissingField(body)
       THEN /\ resp' = Response("POST /tickets", 400, {"success", "error"}, FALSE, 0)
            /\ tickets' = tickets
       ELSE \E ok \in BOOLEAN :
            IF ok
            THEN /\ tickets' = saveTicketTable(body.phone_number.s,
                                   [t |-> "object", s |-> <<>>, category |-> body.category,
                                    description |-> body.description, zone |-> body.zone,
                                    urgency |-> body.urgency],
                                   "web")
                 /\ resp' = Response("POST /tickets", 201, {"success", "message", "ticketId"},
                                     TRUE, Len(tickets) + 1)
            ELSE /\ tickets' = tickets
                 /\ resp' = Response("POST /tickets", 500, {"success", "error"}, FALSE, 0)
    /\ UNCHANGED <<cfg, users, sessions, heap, hs, delivered, answers, mm>>

\* res.status(status).send(text)
TextResponse(route, status, text) ==
    [route |-> route, status |-> status, json |-> FALSE, keys |-> {}, success |-> FALSE,
     ticketId |-> 0, text |-> text]

S_subscribe == <<"s", "u", "b", "s", "c", "r", "i", "b", "e">>
S_secret == <<"k", "1">>

\* req.query of GET /webhook
Query(mode, token, challenge) == [mode |-> mode, token |-> token, challenge |-> challenge]

Queries ==
    {Query(m, t, c) : m \in {Str(S_subscribe), Str(<<"x">>), Undefined},
                      t \in {Str(S_secret), Str(<<"k">>), Str(<<>>), Undefined},
                      c \in {Str(<<"4", "2">>), Undefined}}

\* variant: the mode is not looked at
Verified_TokenOnly(query) == query.token = Str(cfg.verifyToken)

\* mode === 'subscribe' && token === WEBHOOK_VERIFY_TOKEN
Verified(query) ==
    query.mode = Str(S_subscribe) /\ query.token = Str(cfg.verifyToken)

\* router.get('/webhook')
GetWebhook(query, limit) ==
    /\ requests < limit
    /\ requests' = requests + 1
    /\ req' = Request("GET /webhook", query)
    /\ resp' = IF Verified(query)
               THEN TextResponse("GET /webhook", 200, query.challenge)
               ELSE TextResponse("GET /webhook", 403, Str(<<"Forbidden">>))
    /\ UNCHANGED <<cfg, users, tickets, sessions, heap, hs, delivered, answers, mm>>

\* whether db.service exports getTicketById, which ticket.routes imports and calls
getTicketByIdExported == FALSE

\* the ids a request can name: stored tickets and one that is never stored
TicketIds == {1, 2, 99}

\* router.get('/tickets/:id'): calling the undefined import throws inside the
\* try block; otherwise 404 for no row, 200 with the row, 500 when the store throws
GetTicket(id, limit) ==
    /\ requests < limit
    /\ requests' = requests + 1
    /\ req' = Request("GET /tickets/:id", id)
    /\ \E ok \in BOOLEAN :
        resp' = IF ~getTicketByIdExported \/ ~ok
                THEN Response("GET /tickets/:id", 500, {"success", "error"}, FALSE, 0)
                ELSE IF id \notin 1..Len(tickets)
                THEN Response("GET /tickets/:id", 404, {"success", "error"}, FALSE, 0)
                ELSE Response("GET /tickets/:id", 200, {"success", "data"}, TRUE, id)
    /\ UNCHANGED <<cfg, users, tickets, sessions, heap, hs, delivered, answers, mm>>

\* router.get('/tickets'): getTickets answers or throws
GetTickets(limit) ==
    /\ requests < limit
    /\ requests' = requests + 1
    /\ req' = Request("GET /tickets", <<>>)
    /\ \E ok \in BOOLEAN :
        resp' = IF ok THEN Response("GET /tickets", 200, {"success", "data"}, TRUE, 0)
                ELSE Response("GET /tickets", 500, {"success", "error"}, FALSE, 0)
    /\ UNCHANGED <<cfg, users, tickets, sessions, heap, hs, delivered, answers, mm>>

\* req.body.status of PATCH /tickets/:id/status; the text of a status is kept as one token
PatchStatuses == {Undefined, Str(<<>>), Str(<<"ASIGNADO">>), Str(<<"FOO">>)}

\* UPDATE tickets SET status = $1 WHERE id = $2 RETURNING *: the table afterwards
updateTicketStatusTable(id, newStatus) ==
    IF id \in 1..Len(tickets) THEN [tickets EXCEPT ![id].status = newStatus.s[1]] ELSE tickets

\* router.patch('/tickets/:id/status'): 400 without status, 500 when the store
\* throws, 404 when no row was updated, 200 with the updated row
PatchStatus(id, status, limit) ==
    /\ requests < limit
    /\ requests' = requests + 1
    /\ req' = Request("PATCH /tickets/:id/status", [id |-> id, status |-> status])
    /\ IF ~Truthy(status)
       THEN /\ resp' = Response("PATCH /tickets/:id/status", 400, {"success", "error"}, FALSE, 0)
            /\ tickets' = tickets
       ELSE \E ok \in BOOLEAN :
            IF ~ok
            THEN /\ resp' = Response("PATCH /tickets/:id/status", 500, {"success", "error"}, FALSE, 0)
                 /\ tickets' = tickets
            ELSE /\ tickets' = updateTicketStatusTable(id, status)
                 /\ resp' = IF id \in 1..Len(tickets)
                            THEN Response("PATCH /tickets/:id/status", 200, {"success", "data"}, TRUE, id)
                            ELSE Response("PATCH /tickets/:id/status", 404, {"success", "error"}, FALSE, 0)
    /\ UNCHANGED <<cfg, users, sessions, heap, hs, delivered, answers, mm>>

\* req.body of POST /send-whatsapp, a parsed JSON object
SendBody(phoneNumber, workerName, category) ==
    [t |-> "object", phoneNumber |-> phoneNumber, workerName |-> workerName, category |-> category]

SendBodies ==
    {SendBody(Str(PhoneB), Str(<<"N">>), Str(S_techo)),
     SendBody(Str(PhoneB), Undefined, Str(S_techo)),
     SendBody(Str(<<>>), Str(<<"N">>), Str(S_techo))}

\* router.post('/send-whatsapp'): 400 for a missing field, 502 when
\* sendWhatsAppText reports a failure, 200 otherwise; sendWhatsAppText
\* catches the gateway's errors itself, so for a parsed body nothing reaches
\* the route's catch block
SendWhatsapp(body, limit) ==
    /\ requests < limit
    /\ requests' = requests + 1
    /\ req' = Request("POST /send-whatsapp", body)
    /\ \E gatewayOk \in BOOLEAN :
        resp' = IF ~Truthy(body.phoneNumber) \/ ~Truthy(body.workerName) \/ ~Truthy(body.category)
                THEN Response("POST /send-whatsapp", 400, {"error", "required"}, FALSE, 0)
                ELSE IF ~gatewayOk
                THEN Response("POST /send-whatsapp", 502, {"error", "detail"}, FALSE, 0)
                ELSE Response("POST /send-whatsapp", 200, {"success", "messageId"}, TRUE, 0)
    /\ UNCHANGED <<cfg, users, tickets, sessions, heap, hs, delivered, answers, mm>>

-----------------------------------------------------------------------------
(* The service                                                              *)

Config(allowed, geminiKey, geoBase, radius) ==
    [allowed |-> allowed, geminiKey |-> geminiKey, geoBase |-> geoBase, radius |-> radius]

\* deployments of the webhook: configured, no allow-listed number, no extractor key
Configs ==
    {Config(PhoneA, TRUE, TRUE, 0),
     Config(Unset, TRUE, FALSE, 0),
     Config(PhoneA, FALSE, FALSE, 0)}

MMIdle ==
    [pc |-> "idle", ticketData |-> NullData,
     env |-> [geoBase |-> FALSE, radius |-> 0,
              geo |-> [kind |-> "throw", lat |-> 0, lng |-> 0], dir |-> DirFail("throw")],
     out |-> [raised |-> FALSE, result |-> <<>>, geoCalls |-> 0, dirCalls |-> 0, query |-> NoQuery]]

\* the store as a deployment finds it: no row for a sender, a row that
\* accepted an earlier terms version, or a row that accepted the current one
InitStore ==
    /\ users \in [Senders -> {NoRow, StaleUserRow, AcceptedRow}]
    /\ users[PhoneB] = NoRow
    /\ tickets = <<>>

InitProcess ==
    /\ sessions = [p \in Senders |-> 0]
    /\ heap = <<>>
    /\ hs = [h \in H |-> Idle]
    /\ delivered = 0
    /\ answers = [p \in Senders |-> <<>>]
    /\ requests = 0
    /\ resp = NoResp
    /\ req = NoReq
    /\ mm = MMIdle

Init ==
    /\ cfg \in Configs
    /\ InitStore
    /\ InitProcess

\* a handler in flight resumes at the await it is parked on
Resume(h) ==
    \/ AcceptTerms(h)
    \/ SendAccept(h)
    \/ SendReject(h)
    \/ GetUser(h)
    \/ CreateUser(h)
    \/ SendTerms(h)
    \/ \E answer \in ExtractorAnswers : ExtractReturn(h, answer)
    \/ SaveTicket(h)
    \/ Matchmaking(h)
    \/ SendMatch(h)
    \/ SendNoMatch(h)
    \/ SendReply(h)

Next ==
    \/ \E h \in H, msg \in InboundMessages : Receive(h, msg, MaxDeliveries)
    \/ \E h \in H : Resume(h)
    \/ \E body \in PostBodies : PostTickets(body, MaxRequests)

\* deliveries and requests are handled as they arrive, handlers interleave at their awaits
Spec == Init /\ [][Next]_vars

\* no handler is in flight: every delivery is handled to its end before the next arrives
Quiet == \A h \in H : Free(h)

\* a delivery or a request arrives only when no handler is in flight
ReceiveSeq(h, msg) == Quiet /\ Receive(h, msg, MaxSeqDeliveries)

PostTicketsSeq(body) == Quiet /\ PostTickets(body, MaxRequests)

NextSeq ==
    \/ \E h \in H, msg \in InboundMessages : ReceiveSeq(h, msg)
    \/ \E h \in H : Resume(h)
    \/ \E body \in PostBodies : PostTicketsSeq(body)

\* the same service when deliveries arrive one after the other
SpecSeq == Init /\ [][NextSeq]_vars

\* the webhook alone, two deliveries in flight and a further one after them
NextRace ==
    \/ \E h \in H, msg \in InboundMessages : Receive(h, msg, MaxRaceDeliveries)
    \/ \E h \in H : Resume(h)

SpecRace == Init /\ [][NextRace]_vars

-----------------------------------------------------------------------------
(* The HTTP API next to the webhook                                         *)

\* deployments with and without a WEBHOOK_VERIFY_TOKEN ('' when unset)
ApiConfigs ==
    {[verifyToken |-> S_secret] @@ Config(PhoneA, TRUE, TRUE, 0),
     [verifyToken |-> <<>>] @@ Config(PhoneA, TRUE, TRUE, 0)}

InitApi ==
    /\ cfg \in ApiConfigs
    /\ InitStore
    /\ InitProcess

ReceiveApi(h, msg) == Quiet /\ Receive(h, msg, MaxApiDeliveries)

NextApi ==
    \/ \E h \in H, msg \in InboundMessages : ReceiveApi(h, msg)
    \/ \E h \in H : Resume(h)
    \/ \E query \in Queries : GetWebhook(query, MaxApiRequests)
    \/ \E id \in TicketIds : GetTicket(id, MaxApiRequests)
    \/ GetTickets(MaxApiRequests)
    \/ \E id \in TicketIds, status \in PatchStatuses : PatchStatus(id, status, MaxApiRequests)
    \/ \E body \in PostBodies : PostTickets(body, MaxApiRequests)
    \/ \E body \in SendBodies : SendWhatsapp(body, MaxApiRequests)

\* requests to the HTTP API arrive while webhook deliveries are handled
SpecApi == InitApi /\ [][NextApi]_vars

-----------------------------------------------------------------------------
(* findMatchingProviders on its own: every call and its outcome             *)

MatchConfigs ==
    {Config(PhoneA, TRUE, TRUE, 0), Config(PhoneA, TRUE, FALSE, 0), Config(PhoneA, TRUE, TRUE, 25)}

\* category and zone as the extractor can return them: strings, null, a non-string
MatchPlaces ==
    {<<Str(S_pintor), Str(S_zone)>>, <<Str(S_techo), Null>>, <<Null, Num(<<"5">>)>>,
     <<Num(<<"5">>), Str(S_zone)>>}
MatchUrgencies == {Str(S_alta), Str(S_ALTA), Str(S_urgente), Str(S_baja), Null, Num(<<"5">>)}

\* a truthy primitive in the place of the extractedData object
PrimitiveData ==
    [t |-> "string", s |-> <<"x">>, category |-> Undefined, zone |-> Undefined,
     urgency |-> Undefined, description |-> Undefined]

MatchInputs ==
    {TicketData(p[1], p[2], u) : p \in MatchPlaces, u \in MatchUrgencies}
    \cup {PrimitiveData, NullData}

\* every directory answer with up to MaxItems providers
ItemLists ==
    UNION {{[i \in 1..n |-> Item(i, f[i][1], f[i][2])] : f \in [1..n -> BOOLEAN \X BOOLEAN]} : n \in 0..MaxItems}

DirAnswers ==
    {DirFail("throw"), DirFail("non2xx"), DirFail("nodata"), DirFail("noitems")}
    \cup {DirItems(items) : items \in ItemLists}

InitMatch ==
    /\ cfg \in MatchConfigs
    /\ users = [p \in Senders |-> NoRow]
    /\ tickets = <<>>
    /\ InitProcess

\* a call: the arguments and the collaborators' answers are drawn, the outcome recorded
MMCall ==
    /\ mm.pc = "idle"
    /\ \E ticketData \in MatchInputs, geo \in GeoAnswers, dir \in DirAnswers :
        mm' = [pc |-> "returned", ticketData |-> ticketData, env |-> MatchEnv(geo, dir),
               out |-> findMatchingProviders(ticketData, MatchEnv(geo, dir))]
    /\ UNCHANGED <<cfg, users, tickets, sessions, heap, hs, delivered, answers, requests, resp, req>>

MMReturn ==
    /\ mm.pc = "returned"
    /\ mm' = MMIdle
    /\ UNCHANGED <<cfg, users, tickets, sessions, heap, hs, delivered, answers, requests, resp, req>>

NextMatch ==
    \/ MMCall
    \/ MMReturn

SpecMatch == InitMatch /\ [][NextMatch]_vars

-----------------------------------------------------------------------------
(* Properties of the webhook route and the ticket API                       *)

\* the handler's delivery carries a button reply with this id
Button(h, id) == hs[h].msg.type = "interactive" /\ hs[h].msg.button = id

\* the handler's sender is the allow-listed number
Allowed(h) == hs[h].msg.type # "none" /\ ~NotAllowed(hs[h].msg.from)

\* the handler has loaded a User record that has not accepted the current terms
LoadedUncleared(h) ==
    /\ hs[h].user.exists
    /\ ~hs[h].user.terms_accepted \/ hs[h].user.terms_version # CURRENT_TERMS_VERSION

C2_AcceptRecorded ==
    \A h \in H :
        (Allowed(h) /\ Button(h, "accept_terms") /\ hs[h].pc = "done" /\ hs[h].sent # <<>>) =>
            /\ users[hs[h].msg.from].exists
            /\ users[hs[h].msg.from].terms_accepted
            /\ users[hs[h].msg.from].terms_version = CURRENT_TERMS_VERSION
            /\ hs[h].sent = <<Message("accepted", GatewayTo(hs[h].msg.from), 0, 0)>>

\* C3: no step of a handler of a reject_terms button reply changes the user
\* store, the ticket store or the session store, and the handler ends having
\* sent exactly one acknowledgement.
C3_RejectIsInert ==
    /\ [](\A h \in H :
            (Allowed(h) /\ Button(h, "reject_terms") /\ hs[h].pc = "done") =>
                hs[h].sent = <<Message("rejected", GatewayTo(hs[h].msg.from), 0, 0)>>)
    /\ [][\A h \in H :
            (hs'[h] # hs[h] /\ hs'[h].msg.type = "interactive" /\ hs'[h].msg.button = "reject_terms") =>
                /\ users' = users
                /\ tickets' = tickets
                /\ sessions' = sessions
                /\ heap' = heap]_vars

\* a reject_terms reply was handled to its end and the sender's earlier
\* acceptance is still on record
C3_Witness ==
    \E h \in H :
        /\ Button(h, "reject_terms")
        /\ hs[h].pc = "done"
        /\ Len(hs[h].sent) = 1
        /\ hs[h].sent[1].kind = "rejected"
        /\ users[hs[h].msg.from] = AcceptedRow

\* the number of "incomplete" answers since the last "complete" one
RECURSIVE IncompleteRun(_)
IncompleteRun(log) ==
    IF log = <<>> THEN 0
    ELSE LET rest == SubSeq(log, 1, Len(log) - 1)
         IN  IF log[Len(log)] = "complete" THEN 0
             ELSE IF log[Len(log)] = "incomplete" THEN 1 + IncompleteRun(rest)
             ELSE IncompleteRun(rest)

ModelTurns(history) == Cardinality({i \in 1..Len(history) : history[i].role = "model"})

\* C4: when deliveries are handled one after the other, a sender's session
\* holds as many model turns as the extractor gave incomplete answers since
\* its last complete one; after a complete answer the sender has no session
\* until the next analysed message, whose session holds its user turn only.
C4_SessionPerDialogue ==
    \A s \in Senders :
        /\ ModelTurns(SessionTurns(s)) = IncompleteRun(answers[s])
        /\ (answers[s] # <<>> /\ answers[s][Len(answers[s])] = "complete") =>
                \/ sessions[s] = 0
                \/ \E h \in H :
                        /\ hs[h].pc = "extract"
                        /\ hs[h].msg.from = s
                        /\ SessionTurns(s) = <<Turn("user", hs[h].d)>>

\* two incomplete answers, a complete one, and the fourth message waits for
\* the extractor with a session of its own user turn
C4_Witness ==
    /\ answers[PhoneA] = <<"incomplete", "incomplete", "complete">>
    /\ \E h \in H :
            /\ hs[h].pc = "extract"
            /\ hs[h].d = 4
            /\ SessionTurns(PhoneA) = <<Turn("user", 4)>>

\* C5 as written: every completion event has exactly one persisted ticket,
\* with source 'whatsapp' for a webhook turn whose result has isComplete and
\* extractedData, with source 'web' for a POST /tickets that passed validation.
C5_ExactlyOneTicket ==
    /\ \A h \in H :
            (hs[h].pc = "done" /\ hs[h].answered = "complete" /\ Truthy(hs[h].result.extractedData)) =>
                /\ hs[h].saved = "ok"
                /\ hs[h].ticketId \in 1..Len(tickets)
                /\ tickets[hs[h].ticketId].source = "whatsapp"
    /\ (resp.route = "POST /tickets" /\ resp.status # 400) =>
            /\ resp.status = 201
            /\ resp.ticketId \in 1..Len(tickets)
            /\ tickets[resp.ticketId].source = "web"

\* C5, amended: a completion event persists at most one ticket, and exactly
\* one unless saveTicket throws.  A webhook turn whose result has isComplete
\* and extractedData calls saveTicket once, and the step of that call either
\* appends one ticket with source 'whatsapp' or (the call threw) none; a
\* POST /tickets either appends one ticket with source 'web' and answers 201
\* with its id, or appends none and answers 400 or 500; no other step
\* changes the ticket store.
C5_AtMostOneTicket ==
    /\ [](\A h \in H :
            (hs[h].pc = "done" /\ hs[h].answered = "complete") =>
                /\ hs[h].calls.save = IF Truthy(hs[h].result.extractedData) THEN 1 ELSE 0
                /\ hs[h].saved = "ok" =>
                        /\ hs[h].ticketId \in 1..Len(tickets)
                        /\ tickets[hs[h].ticketId].id = hs[h].ticketId
                        /\ tickets[hs[h].ticketId].source = "whatsapp"
                        /\ tickets[hs[h].ticketId].phone_number = hs[h].msg.from
                /\ hs[h].saved # "ok" => hs[h].ticketId = 0)
    /\ [][/\ Len(tickets') \in {Len(tickets), Len(tickets) + 1}
          /\ SubSeq(tickets', 1, Len(tickets)) = tickets
          /\ \A h \in H :
                hs'[h] # hs[h] =>
                    IF hs[h].pc = "saveTicket" /\ hs'[h].saved = "ok"
                    THEN /\ Len(tickets') = Len(tickets) + 1
                         /\ tickets'[Len(tickets')].source = "whatsapp"
                    ELSE tickets' = tickets
          /\ requests' # requests =>
                IF resp'.status = 201
                THEN /\ Len(tickets') = Len(tickets) + 1
                     /\ tickets'[Len(tickets')].source = "web"
                     /\ resp'.ticketId = Len(tickets')
                ELSE /\ tickets' = tickets
                     /\ resp'.status \in {400, 500}]_vars

\* a webhook completion and a POST /tickets have each stored their ticket
C5_Witness ==
    /\ \E h \in H :
            /\ hs[h].pc = "done"
            /\ hs[h].answered = "complete"
            /\ hs[h].saved = "ok"
            /\ tickets[hs[h].ticketId].source = "whatsapp"
    /\ resp.status = 201
    /\ tickets[resp.ticketId].source = "web"

\* C6: in every state, a handler whose extractor answer cleared the session
\* (isComplete) has its ticket in the store.
C6_ClearedOnlyWithTicket ==
    \A h \in H :
        hs[h].answered = "complete" =>
            /\ hs[h].saved = "ok"
            /\ hs[h].ticketId \in 1..Len(tickets)

\* C7: a handler that persisted a ticket has sent nothing until it ends, and
\* ends having sent exactly one message: the match-results message with the
\* number of returned candidates and the persisted ticket's id when
\* matchmaking returned at least one candidate, the no-match message
\* otherwise; the extractor's reply is never sent.
C7_OneOutcomeMessage ==
    \A h \in H :
        hs[h].saved = "ok" =>
            LET to == GatewayTo(MetaRecipient(hs[h].msg.from))
            IN  /\ hs[h].ticketId \in 1..Len(tickets)
                /\ tickets[hs[h].ticketId].phone_number = hs[h].msg.from
                /\ hs[h].pc # "done" => hs[h].sent = <<>>
                /\ hs[h].pc = "done" =>
                        hs[h].sent = IF Len(hs[h].matches) >= 1
                                     THEN <<Message("match", to, Len(hs[h].matches), hs[h].ticketId)>>
                                     ELSE <<Message("nomatch", to, 0, 0)>>

\* the directory returned four providers and the match-results message
\* announces the three returned candidates
C7_Witness ==
    \E h \in H :
        /\ hs[h].pc = "done"
        /\ hs[h].saved = "ok"
        /\ Len(hs[h].matches) = 3
        /\ Len(hs[h].sent) = 1
        /\ hs[h].sent[1].kind = "match"
        /\ hs[h].sent[1].count = 3
        /\ hs[h].sent[1].ticketId = hs[h].ticketId

\* C11: when deliveries are handled one after the other, a handler whose
\* extractor call failed or answered with an unparsable payload has sent
\* nothing, and the sender's session is as it was before the message
\* arrived: it holds no turn of this delivery, and it does not exist when the
\* sender had no session.
C11_FailedTurnIsNoOp ==
    \A h \in H :
        (hs[h].pc = "done" /\ hs[h].answered = "throw") =>
            /\ hs[h].sent = <<>>
            /\ \A i \in 1..Len(SessionTurns(hs[h].msg.from)) :
                    SessionTurns(hs[h].msg.from)[i].d # hs[h].d

\* C12: a handler whose message comes from a sender that is not the
\* configured allow-listed number, or comes while no number is configured,
\* ends at once and stays as it was received: nothing sent, no user loaded,
\* no gate evaluated, no store, extractor or directory call made; and no
\* step of such a handler changes the user store, the ticket store or the
\* sessions.
C12_NotAllowedDropped ==
    /\ [](\A h \in H :
            (hs[h].msg.type # "none" /\ (cfg.allowed = Unset \/ hs[h].msg.from # cfg.allowed)) =>
                hs[h] = [Idle EXCEPT !.d = hs[h].d, !.msg = hs[h].msg, !.acked = TRUE, !.pc = "done"])
    /\ [][\A h \in H :
            (/\ hs'[h] # hs[h]
             /\ hs'[h].msg.type # "none"
             /\ (cfg.allowed = Unset \/ hs'[h].msg.from # cfg.allowed)) =>
                /\ users' = users
                /\ tickets' = tickets
                /\ sessions' = sessions
                /\ heap' = heap
                /\ answers' = answers]_vars

\* a number is configured and the second delivery, from another sender, was dropped
C12_Witness ==
    \E h \in H :
        /\ cfg.allowed = PhoneA
        /\ hs[h].msg.from = PhoneB
        /\ hs[h].msg.type = "text"
        /\ hs[h].d = 2
        /\ hs[h].pc = "done"
        /\ hs[h].sent = <<>>

\* C13: every delivery a handler holds has been acknowledged with 200,
\* whatever its payload; the step that receives a delivery acknowledges it
\* and makes no store, extractor, directory or messaging call, so every such
\* call is made in a later step; and no later step of the handler, failing
\* or not, takes the acknowledgement back.
C13_AckFirst ==
    /\ [](\A h \in H :
            /\ hs[h].pc = "idle" => hs[h] = Idle
            /\ hs[h].pc # "idle" => hs[h].acked)
    /\ [][\A h \in H :
            IF hs'[h].d # hs[h].d
            THEN /\ hs'[h].acked
                 /\ hs'[h].calls = ZeroCalls
                 /\ hs'[h].sent = <<>>
                 /\ hs'[h].user = NoRow
                 /\ users' = users
                 /\ tickets' = tickets
                 /\ sessions' = sessions
                 /\ heap' = heap
            ELSE hs[h].acked => hs'[h].acked]_vars

\* an acknowledged delivery whose ticket insert failed afterwards
C13_Witness ==
    \E h \in H :
        /\ hs[h].pc = "done"
        /\ hs[h].acked
        /\ hs[h].saved = "failed"
        /\ hs[h].calls.save = 1

\* the directory call of handler h was made and failed
DirectoryFailed(h) ==
    hs[h].calls.dir >= 1 /\ hs[h].dirKind \in {"throw", "non2xx", "nodata", "noitems"}

\* C19: findMatchingProviders is called only after saveTicket returned the id
\* of a stored ticket; when the directory call failed the ticket is still
\* stored, the handler goes on to the send of the no-match message, and once
\* it is done that message is the one message it sent to the requester.
C19_MatchAfterSave ==
    \A h \in H :
        /\ hs[h].calls.match + hs[h].calls.dir >= 1 =>
              /\ hs[h].saved = "ok"
              /\ hs[h].ticketId \in 1..Len(tickets)
              /\ tickets[hs[h].ticketId].id = hs[h].ticketId
              /\ tickets[hs[h].ticketId].phone_number = hs[h].msg.from
        /\ hs[h].pc = "matchmaking" => hs[h].saved = "ok" /\ hs[h].ticketId \in 1..Len(tickets)
        /\ DirectoryFailed(h) =>
              /\ hs[h].pc \in {"sendNoMatch", "done"}
              /\ hs[h].pc = "done" =>
                    hs[h].sent = <<Message("nomatch", GatewayTo(MetaRecipient(hs[h].msg.from)), 0, 0)>>

C19_Witness ==
    \E h \in H :
        /\ hs[h].pc = "done"
        /\ hs[h].dirKind = "throw"
        /\ hs[h].calls.dir = 1
        /\ hs[h].ticketId \in 1..Len(tickets)
        /\ Len(hs[h].sent) = 1
        /\ hs[h].sent[1].kind = "nomatch"

\* C20: a handler whose extractor answered isComplete = true sends no
\* replyToClient message.
C20_CompletionReplySuppressed ==
    \A h \in H :
        hs[h].answered = "complete" =>
            \A i \in 1..Len(hs[h].sent) : hs[h].sent[i].kind # "reply"

\* the turns held by a history array
TurnsOf(history) == {history[i] : i \in 1..Len(history)}

\* C21: a handler's user turn, and its model turn after an incomplete
\* answer, are in the history array the handler holds; that array is no
\* longer the sender's session only after a complete answer for the same
\* sender deleted the session. The witness is the lost update: two handlers
\* of one sender were parked at the extractor on the same array, and the
\* next message of that sender is analysed against a session without the
\* turns of the handler that answered last.
C21_TurnsLostOnlyByDeletion ==
    \A h \in H :
        hs[h].history # 0 =>
            /\ Turn("user", hs[h].d) \in TurnsOf(heap[hs[h].history])
            /\ hs[h].answered = "incomplete" =>
                   Turn("model", hs[h].d) \in TurnsOf(heap[hs[h].history])
            /\ sessions[hs[h].msg.from] # hs[h].history =>
                   \E i \in 1..Len(answers[hs[h].msg.from]) : answers[hs[h].msg.from][i] = "complete"

C21_Witness ==
    \E g \in H, h \in H :
        /\ hs[g].d = 2 /\ hs[g].answered = "incomplete"
        /\ heap[hs[g].history] = <<Turn("user", 1), Turn("user", 2), Turn("model", 2)>>
        /\ hs[h].d = 3 /\ hs[h].msg.from = hs[g].msg.from /\ hs[h].pc = "extract"
        /\ sessions[hs[h].msg.from] = hs[h].history
        /\ SessionTurns(hs[h].msg.from) = <<Turn("user", 3)>>


\* C22: a handler of an interactive message from the allow-listed sender
\* stays within the button logic: it never reaches getUser, createUser, the
\* gatekeeper or analyzeMessage, sends no terms prompt, and none of its steps
\* changes the sender's session.
C22_ButtonStops ==
    /\ [](\A h \in H :
            (Allowed(h) /\ hs[h].msg.type = "interactive") =>
                /\ hs[h].pc \in {"acceptTerms", "sendAccept", "sendReject", "done"}
                /\ hs[h].gate = "none"
                /\ ~hs[h].user.exists
                /\ hs[h].calls.analyze = 0
                /\ hs[h].calls.extract = 0
                /\ \A i \in 1..Len(hs[h].sent) : hs[h].sent[i].kind # "terms")
    /\ [][\A h \in H :
            (hs'[h] # hs[h] /\ hs'[h].msg.type = "interactive") =>
                /\ sessions' = sessions
                /\ heap' = heap]_vars


\* the messages of one kind a handler has handed to the gateway
SentOfKind(h, kind) == Cardinality({i \in 1..Len(hs[h].sent) : hs[h].sent[i].kind = kind})

\* C24: a handler calls analyzeMessage, the extractor, saveTicket,
\* findMatchingProviders, the geocoder and the directory at most once each,
\* and sends at most one message of each kind.
C24_NoRetry ==
    \A h \in H :
        /\ hs[h].calls.analyze <= 1
        /\ hs[h].calls.extract <= 1
        /\ hs[h].calls.save <= 1
        /\ hs[h].calls.match <= 1
        /\ hs[h].calls.geo <= 1
        /\ hs[h].calls.dir <= 1
        /\ \A kind \in {"terms", "accepted", "rejected", "match", "nomatch", "reply"} :
               SentOfKind(h, kind) <= 1

\* a handler ended after its one saveTicket call failed
C24_Witness ==
    \E h \in H :
        /\ hs[h].pc = "done"
        /\ hs[h].saved = "failed"
        /\ hs[h].calls.save = 1
        /\ hs[h].calls.extract = 1
        /\ hs[h].calls.match = 0


\* C25: every message a handler hands to the gateway is addressed to its
\* sender with a leading '549' replaced by '54' once.
C25_OneRecipient ==
    \A h \in H :
        \A i \in 1..Len(hs[h].sent) :
            hs[h].sent[i].to = Normalize549(hs[h].msg.from)


\* the matchmaking-outcome messages a handler has sent
Outcomes(h) == SentOfKind(h, "match") + SentOfKind(h, "nomatch")

\* C26 as stated: two handlers working on the same history array (one
\* session lifetime) never both persist a ticket, both run matchmaking or
\* both send an outcome message.
C26_OnePerLifetime ==
    \A g \in H, h \in H :
        (g # h /\ hs[g].history # 0 /\ hs[g].history = hs[h].history) =>
            /\ ~(hs[g].saved = "ok" /\ hs[h].saved = "ok")
            /\ ~(hs[g].calls.match >= 1 /\ hs[h].calls.match >= 1)
            /\ ~(Outcomes(g) >= 1 /\ Outcomes(h) >= 1)

\* C26 amended: a handler persists, runs matchmaking and sends an outcome
\* message only after a complete answer, and at most once each; and no
\* handler joins a history array on which another handler has already been
\* answered complete. A session lifetime therefore yields one ticket per
\* handler that was parked at the extractor on it before its first complete
\* answer.
C26_OnePerCompletion ==
    /\ [](\A h \in H :
            (hs[h].saved # "none" \/ hs[h].calls.match >= 1 \/ Outcomes(h) >= 1) =>
                /\ hs[h].answered = "complete"
                /\ hs[h].calls.save = 1
                /\ hs[h].calls.match <= 1
                /\ Outcomes(h) <= 1)
    /\ [][\A h \in H :
            (hs[h].history = 0 /\ hs'[h].history # 0) =>
                \A g \in H :
                    (g # h /\ hs[g].history = hs'[h].history) => hs[g].answered # "complete"]_vars

\* two handlers of one sender shared a history array and each persisted a ticket
C26_Witness ==
    \E g \in H, h \in H :
        /\ g # h
        /\ hs[g].history # 0 /\ hs[g].history = hs[h].history
        /\ hs[g].saved = "ok" /\ hs[h].saved = "ok"
        /\ Len(tickets) = 2
        /\ tickets[1].phone_number = tickets[2].phone_number
        /\ Outcomes(g) = 1 /\ Outcomes(h) = 1


\* C27: a handler of a non-button message from the allow-listed sender that
\* ended without a rejected store call, while its sender's User record is
\* not cleared, has sent exactly one terms prompt.
C27_PromptDespiteRace ==
    \A h \in H :
        (/\ Allowed(h)
         /\ hs[h].msg.type # "interactive"
         /\ hs[h].pc = "done"
         /\ ~hs[h].threw
         /\ ~Cleared(users[hs[h].msg.from])) =>
            hs[h].sent = <<Message("terms", GatewayTo(hs[h].msg.from), 0, 0)>>


\* C28: a handler sends at most one message, and a second message in its
\* delivery is not processed: a handler whose first message is no button
\* reply never runs the accept_terms logic of a button reply that follows
\* it, and its steps change the user store only by creating the sender's
\* record.
C28_OneMessagePerDelivery ==
    /\ [](\A h \in H :
            /\ Len(hs[h].sent) <= 1
            /\ hs[h].msg.type # "interactive" =>
                   /\ hs[h].pc \notin {"acceptTerms", "sendAccept", "sendReject"}
                   /\ SentOfKind(h, "accepted") + SentOfKind(h, "rejected") = 0)
    /\ [][\A h \in H :
            (hs'[h] # hs[h] /\ hs'[h].msg.type # "interactive") =>
                \A p \in Senders : users'[p] # users[p] => users'[p] = NewUserRow]_vars

\* a delivery of an image followed by an accept_terms reply ended with the
\* one terms prompt, the sender still uncleared
C28_Witness ==
    \E h \in H :
        /\ hs[h].msg.second = "accept_terms"
        /\ hs[h].pc = "done"
        /\ Len(hs[h].sent) = 1
        /\ hs[h].sent[1].kind = "terms"
        /\ users[hs[h].msg.from] = StaleUserRow


\* the sender's User record has accepted the current terms version
RecordCleared(p) ==
    /\ users[p].exists
    /\ users[p].terms_accepted
    /\ users[p].terms_version = CURRENT_TERMS_VERSION

\* C29: a sender has a session only while the sender's User record is
\* cleared, and every step that creates a session or pushes a turn on a
\* history array is the step of a handler whose sender's record is cleared.
C29_SessionOnlyIfCleared ==
    /\ [](\A p \in Senders : sessions[p] # 0 => RecordCleared(p))
    /\ [][(sessions' # sessions \/ heap' # heap) =>
            \E h \in H :
                /\ hs'[h] # hs[h]
                /\ RecordCleared(hs[h].msg.from)
                /\ \A p \in Senders : sessions'[p] # sessions[p] => p = hs[h].msg.from]_vars

\* a cleared sender's session was created and extended while another
\* sender's record is missing
C29_Witness ==
    /\ sessions[PhoneA] # 0
    /\ Len(SessionTurns(PhoneA)) >= 2
    /\ users[PhoneA] = AcceptedRow
    /\ sessions[PhoneB] = 0


\* no step takes a cleared User record back to an uncleared one
StaysCleared ==
    \A p \in Senders :
        RecordCleared(p) =>
            /\ users'[p].exists
            /\ users'[p].terms_accepted
            /\ users'[p].terms_version = CURRENT_TERMS_VERSION

\* C30 as stated: a cleared User record stays cleared, and no terms prompt
\* is sent to a sender whose record is cleared.
C30_ClearedNeverPrompted ==
    /\ [][StaysCleared]_vars
    /\ [][\A h \in H :
            (SentOfKind(h, "terms") = 0 /\ Len(hs'[h].sent) = 1 /\ hs'[h].sent[1].kind = "terms") =>
                ~RecordCleared(hs'[h].msg.from)]_vars

\* C30 amended: a cleared User record stays cleared, and a handler that
\* loaded a cleared record never sends the terms prompt.
C30_MonotonicAcceptance ==
    /\ [][StaysCleared]_vars
    /\ [](\A h \in H :
            (/\ hs[h].user.exists
             /\ hs[h].user.terms_accepted
             /\ hs[h].user.terms_version = CURRENT_TERMS_VERSION) =>
                /\ hs[h].pc # "sendTerms"
                /\ SentOfKind(h, "terms") = 0)

\* the third delivery, a text from a sender whose acceptance was recorded
\* by an earlier delivery, was analysed without a prompt
C30_Witness ==
    \E h \in H :
        /\ hs[h].d = 3
        /\ hs[h].msg.type = "text"
        /\ hs[h].user = AcceptedRow
        /\ hs[h].calls.analyze = 1
        /\ hs[h].pc = "done"
        /\ \E g \in H : Button(g, "accept_terms") /\ hs[g].pc = "done" /\ hs[g].sent # <<>>


-----------------------------------------------------------------------------
(* Properties of the HTTP API, checked under SpecApi                        *)

\* C14: the response to GET /webhook is 200 with the hub.challenge value as
\* its body exactly when hub.mode is the string 'subscribe' and
\* hub.verify_token is a string equal to the configured secret; for every
\* other mode and token, a missing token included, it is 403.
C14_WebhookVerification ==
    resp.route = "GET /webhook" =>
        LET q == req.arg
            match == /\ q.mode.t = "string" /\ q.mode.s = S_subscribe
                     /\ q.token.t = "string" /\ q.token.s = cfg.verifyToken
        IN  IF match
            THEN resp.status = 200 /\ ~resp.json /\ resp.text = q.challenge
            ELSE resp.status = 403

\* a verification that succeeded and carries the challenge back
C14_Witness ==
    /\ resp.route = "GET /webhook"
    /\ cfg.verifyToken = S_secret
    /\ req.arg.token = Str(S_secret)
    /\ resp.status = 200
    /\ resp.text = Str(<<"4", "2">>)

\* a body field that is missing, null or the empty string
Absent(v) == v.t \in {"undefined", "null"} \/ (v.t = "string" /\ v.s = <<>>)

\* C15: a POST /tickets whose phone_number, category or description is
\* missing or empty is answered 400, and serving it leaves the ticket store
\* as it was.
C15_MissingFieldRejected ==
    /\ []((resp.route = "POST /tickets"
             /\ (Absent(req.arg.phone_number) \/ Absent(req.arg.category) \/ Absent(req.arg.description)))
            => resp.status = 400)
    /\ [][(/\ requests' # requests
           /\ req'.route = "POST /tickets"
           /\ (Absent(req'.arg.phone_number) \/ Absent(req'.arg.category) \/ Absent(req'.arg.description)))
            => (resp'.status = 400 /\ tickets' = tickets)]_vars

\* a body without description was answered 400 while the store holds a ticket
C15_Witness ==
    /\ resp.route = "POST /tickets"
    /\ req.arg.description = Undefined
    /\ resp.status = 400
    /\ Len(tickets) = 1

\* C16: a GET /tickets/:id for an id that no stored ticket has is answered 404.
C16_AbsentTicketIs404 ==
    (resp.route = "GET /tickets/:id" /\ \A i \in 1..Len(tickets) : tickets[i].id # req.arg)
        => resp.status = 404

\* C17: every stored ticket has a status among ABIERTO, ASIGNADO, COMPLETADO
\* and CANCELADO.
C17_StatusInEnum ==
    \A i \in 1..Len(tickets) :
        tickets[i].status \in {"ABIERTO", "ASIGNADO", "COMPLETADO", "CANCELADO"}

\* C18: every response of GET /tickets, GET /tickets/:id, PATCH
\* /tickets/:id/status, POST /tickets and POST /send-whatsapp is a JSON
\* object with a success field, and with an error field when its status is
\* a failure status (the payload of a success goes under data, ticketId or
\* messageId).
C18_JsonEnvelope ==
    resp.route \in {"GET /tickets", "GET /tickets/:id", "PATCH /tickets/:id/status",
                    "POST /tickets", "POST /send-whatsapp"} =>
        /\ resp.json
        /\ "success" \in resp.keys
        /\ resp.status >= 400 => "error" \in resp.keys
        /\ resp.status < 400 => resp.keys \cap {"data", "ticketId", "messageId"} # {}

-----------------------------------------------------------------------------
(* Properties of findMatchingProviders, checked under SpecMatch             *)

\* a value a string method can be called on behind a truthiness guard
StringOrFalsy(v) == IsString(v) \/ ~Truthy(v)

\* the call reached the re-ranking stage and completed it: the directory
\* answered with a non-empty items array and no string method threw
RerankRan ==
    /\ mm.pc = "returned"
    /\ Truthy(mm.ticketData)
    /\ mm.env.dir.kind = "items"
    /\ mm.env.dir.items # <<>>
    /\ StringOrFalsy(Field(mm.ticketData, "zone"))
    /\ StringOrFalsy(Field(mm.ticketData, "urgency"))

\* C8: when urgency is 'alta' or 'urgente' in any letter case, every
\* emergency-available candidate precedes every candidate that is not, and
\* is_pro orders only candidates equal on emergency availability; for any
\* other urgency every is_pro candidate precedes every candidate that is not.
C8_EmergencyPrimary ==
    RerankRan =>
        LET r == mm.out.result
            urgency == Field(mm.ticketData, "urgency")
            urgent == IsString(urgency) /\ ToLowerCase(urgency.s) \in {S_alta, S_urgente}
        IN  \A i, j \in 1..Len(r) :
                i < j =>
                    IF urgent
                    THEN /\ ~(~r[i].emergency_available /\ r[j].emergency_available)
                         /\ (r[i].emergency_available = r[j].emergency_available
                                => ~(~r[i].is_pro /\ r[j].is_pro))
                    ELSE ~(~r[i].is_pro /\ r[j].is_pro)

\* C9: a call returns at most 3 candidates, and when the directory returned
\* more than 3 items and the re-ranking completed, the result is the
\* projection of the first 3 entries of the re-ranked list: 3 distinct
\* directory items.
C9_TopThree ==
    mm.pc = "returned" =>
        /\ Len(mm.out.result) <= 3
        /\ (RerankRan /\ Len(mm.env.dir.items) > 3) =>
                LET ranked == Rerank(mm.env.dir.items, Field(mm.ticketData, "urgency"))
                    r == mm.out.result
                IN  /\ Len(r) = 3
                    /\ \A i \in 1..3 : r[i] = Project(ranked[i])
                    /\ \A i, j \in 1..3 : i # j => r[i].id # r[j].id
                    /\ \A i \in 1..3 : \E k \in 1..Len(mm.env.dir.items) :
                            mm.env.dir.items[k].id = r[i].id

\* four items came back, the urgency is high, and the fourth item leads the 3 returned
C9_Witness ==
    /\ RerankRan
    /\ Len(mm.env.dir.items) = 4
    /\ IsUrgent(Field(mm.ticketData, "urgency"))
    /\ Len(mm.out.result) = 3
    /\ mm.out.result[1].id = 4

\* C10: for every truthy ticketData, whatever its category, zone and urgency
\* hold, the call raises nothing, and it returns the empty list when the
\* directory request throws or times out, answers non-2xx, answers without a
\* data body or answers with a body whose items is not an array.
C10_NeverRaises ==
    (mm.pc = "returned" /\ Truthy(mm.ticketData)) =>
        /\ ~mm.out.raised
        /\ mm.env.dir.kind \in {"throw", "non2xx", "nodata", "noitems"} => mm.out.result = <<>>

\* the directory request was made and threw, for a ticketData whose urgency is a number
C10_Witness ==
    /\ mm.pc = "returned"
    /\ mm.env.dir.kind = "throw"
    /\ mm.out.dirCalls = 1
    /\ Field(mm.ticketData, "urgency").t = "number"
    /\ ~mm.out.raised
    /\ mm.out.result = <<>>


\* the call of findMatchingProviders got as far as geocodeZone: ticketData
\* could be destructured and the zone could be normalised
ReachedGeocode ==
    /\ mm.pc = "returned"
    /\ mm.ticketData.t \notin {"null", "undefined"}
    /\ LET zone == Field(mm.ticketData, "zone") IN ~(Truthy(zone) /\ ~IsString(zone))

\* coordinates were resolved: an endpoint is configured, the zone names a
\* city, and the geocoder answered with numeric lat and lng
CoordsResolved ==
    /\ mm.env.geoBase
    /\ parseZone(Field(mm.ticketData, "zone")).city # <<>>
    /\ mm.env.geo.kind = "coords"

\* C23: a call of findMatchingProviders that reaches geocodeZone queries the
\* directory exactly once and the geocoder at most once, whatever the geocoder
\* answers; the query carries lat, lng and the radius (the override, else
\* DEFAULT_RADIUS_KM) if coordinates were resolved, and none of the three
\* otherwise.
C23_GeocodingIsSoft ==
    ReachedGeocode =>
        /\ mm.out.dirCalls = 1
        /\ mm.out.geoCalls \in {0, 1}
        /\ ~mm.env.geoBase => mm.out.geoCalls = 0
        /\ IF CoordsResolved
           THEN /\ mm.out.query.coords = [ok |-> TRUE, lat |-> mm.env.geo.lat, lng |-> mm.env.geo.lng]
                /\ mm.out.query.radiusKm = IF mm.env.radius # 0 THEN mm.env.radius ELSE 40
           ELSE /\ mm.out.query.coords = NoCoords
                /\ mm.out.query.radiusKm = 0

\* the geocoder was called and failed, and the directory still answered with candidates
C23_Witness ==
    /\ ReachedGeocode
    /\ mm.env.geoBase
    /\ mm.env.geo.kind = "throw"
    /\ mm.out.geoCalls = 1
    /\ mm.out.dirCalls = 1
    /\ mm.out.query.coords = NoCoords
    /\ mm.out.query.radiusKm = 0
    /\ Len(mm.out.result) = 3

=============================================================================
